---- MODULE Spec2Model ----
(***************************************************************************)
(* A model of mcutils_reborn's compilation core (src/mcutils_reborn):      *)
(* the namespace tree, the Function compiler with its conditional          *)
(* lowering, the calling convention, the Template memoizer, the Class      *)
(* resolver and the export pass.                                           *)
(*                                                                         *)
(* Python objects live in `heap`, a sequence of records; an object is its  *)
(* index, and None is the index 0.  A method is an operator from a heap    *)
(* (and its arguments) to a result record [h, err, ret]: the heap after    *)
(* the call, the exception it raised ("" for none) and the returned        *)
(* object.                                                                 *)
(***************************************************************************)
EXTENDS Integers, Sequences, FiniteSets, TLC

VARIABLES heap, last, stack, log, size
vars == <<heap, last, stack, log, size>>

\* ---------------------------------------------------------------- bounds
\* The size of the build scripts explored: the create_function calls, the
\* c_if calls and the commands the script appends itself, taken together.
MaxScript == 4
\* The commands one unit holds in the builds that call functions, the nodes
\* a build of the bare tree creates, the varargs of a call, the parents of a
\* Class, the Template instantiations of a build and how deep they nest.
MaxCallCmds == 9
MaxTree == 2
MaxVarargs == 2
MaxParents == 2
MaxCalls == 3
MaxDepth == 2
\* The nodes a build adds to namespaces with add.
MaxAdds == 3
\* The nodes a build adds to a second namespace.
MaxMoves == 1

\* ------------------------------------------------------------ primitives
None == 0
NoErr == ""
AssertionError == "AssertionError"
KeyError == "KeyError"

\* A name is a prefix and a decimal suffix: <<"if", 1>> is the string "if1";
\* a name without digits has the suffix NoNum.
NoNum == None - 1
Fmt(prefix, n) == <<prefix, n>>
Plain(s) == <<s, NoNum>>

R(h, err, ret) == [h |-> h, err |-> err, ret |-> ret]

\* A Python dict as its insertion-ordered sequence of [k, v] items.
DictHas(d, k) == \E i \in 1..Len(d) : d[i].k = k
DictGet(d, k) == d[CHOOSE i \in 1..Len(d) : d[i].k = k].v
DictSet(d, k, v) ==
    IF DictHas(d, k)
    THEN [i \in 1..Len(d) |-> IF d[i].k = k THEN [k |-> k, v |-> v] ELSE d[i]]
    ELSE Append(d, [k |-> k, v |-> v])
RECURSIVE DictUpdate(_, _)
DictUpdate(d, e) ==
    IF e = <<>> THEN d
    ELSE DictUpdate(DictSet(d, Head(e).k, Head(e).v), Tail(e))

\* ----------------------------------------------------------------- nodes
NamespaceKinds == {"Namespace", "Function", "Template", "Class"}
IsNamespace(h, n) == h[n].kind \in NamespaceKinds
IsFunction(h, n) == h[n].kind = "Function"
IsMCFunction(h, n) == h[n].kind = "MCFunction"

Object(kind, name) ==
    [kind |-> kind, name |-> name, parent |-> None, children |-> <<>>,
     commands |-> <<>>, continuation |-> None, entry_point |-> None,
     current_mcfunction |-> None, was_ended |-> FALSE,
     inherits_from |-> <<>>, functions |-> <<>>]

Alloc(h, kind, name) == R(Append(h, Object(kind, name)), NoErr, Len(h) + 1)

\* path() of a node with a parent as the parent's name and the node's own.
path_of_parent_name(h, n) ==
    IF h[n].parent = None THEN <<h[n].name>>
    ELSE <<h[h[n].parent].name, h[n].name>>

RECURSIVE path(_, _)
path(h, n) ==
    IF h[n].parent = None THEN <<h[n].name>>
    ELSE Append(path(h, h[n].parent), h[n].name)

\* ------------------------------------------------------------- Namespace
\* add appending a binding without looking for one of the same name.
Namespace_add_appending(h, p, c) ==
    [h EXCEPT ![p].children = Append(@, [k |-> h[c].name, v |-> c]),
              ![c].parent = p]

Namespace_add(h, p, c) ==
    [h EXCEPT ![p].children = DictSet(@, h[c].name, c), ![c].parent = p]

Namespace_init(h, kind, name) == Alloc(h, kind, name)

Namespace_create_namespace(h, p, name) ==
    LET a == Namespace_init(h, "Namespace", name)
    IN  R(Namespace_add(a.h, p, a.ret), NoErr, a.ret)

MCFunction_init(h, name) == Alloc(h, "MCFunction", name)

Namespace_create_mcfunction(h, p, name) ==
    LET a == MCFunction_init(h, name)
    IN  R(Namespace_add(a.h, p, a.ret), NoErr, a.ret)

Function_init(h, name) ==
    LET a == Namespace_init(h, "Function", name)
        e == Namespace_create_mcfunction(a.h, a.ret, name)
    IN  R([e.h EXCEPT ![a.ret].entry_point = e.ret,
                      ![a.ret].current_mcfunction = e.ret,
                      ![a.ret].was_ended = FALSE],
          NoErr, a.ret)

Namespace_create_function(h, p, name) ==
    LET a == Function_init(h, name)
    IN  R(Namespace_add(a.h, p, a.ret), NoErr, a.ret)

Namespace_create_function_tag(h, p, name) ==
    LET a == Alloc(h, "FunctionTag", name)
    IN  R([a.h EXCEPT ![a.ret].parent = p], NoErr, a.ret)

Class_init(h, name, inherits_from) ==
    LET a == Namespace_init(h, "Class", name)
    IN  R([a.h EXCEPT ![a.ret].inherits_from = inherits_from], NoErr, a.ret)

Namespace_create_class(h, p, name, inherits_from) ==
    LET a == Class_init(h, name, inherits_from)
    IN  R(Namespace_add(a.h, p, a.ret), NoErr, a.ret)

Template_init(h, name) == Namespace_init(h, "Template", name)

Namespace_create_template(h, p, name) ==
    LET a == Template_init(h, name)
    IN  R(Namespace_add(a.h, p, a.ret), NoErr, a.ret)

Namespace_get(h, p, name) ==
    IF DictHas(h[p].children, name)
    THEN R(h, NoErr, DictGet(h[p].children, name))
    ELSE R(h, KeyError, None)

\* -------------------------------------------------------------- commands
\* A command: its class k, the condition or expression c it reads, the unit
\* or function t it refers to and the register r it writes.
Command(k, c, t, r) == [k |-> k, c |-> c, t |-> t, r |-> r]
LiteralCommand(c) == Command("LiteralCommand", c, None, "")
Comment(t) == Command("Comment", None, t, "")
FunctionCall(t) == Command("FunctionCall", None, t, "")
ExecuteIf(c, t) == Command("execute if", c, t, "")
ExecuteUnless(c, t) == Command("execute unless", c, t, "")
var_to_var(c, r) == Command("var_to_var", c, None, r)

STD_ARG == "arg"
STD_RET == "ret"

\* ------------------------------------------------------------ MCFunction
MCFunction_add_command(h, u, command) ==
    [h EXCEPT ![u].commands = Append(@, command)]

\* -------------------------------------------------------------- Function
Bind(r, F(_)) == IF r.err # NoErr THEN r ELSE F(r.h)

RECURSIVE AppendAll(_, _, _)
AppendAll(h, u, commands_) ==
    IF commands_ = <<>> THEN h
    ELSE AppendAll(MCFunction_add_command(h, u, Head(commands_)), u,
                   Tail(commands_))

\* add_command without its assertion.
Function_add_command_unchecked(h, f, commands_) ==
    R(AppendAll(h, h[f].current_mcfunction, commands_), NoErr, None)

Function_add_command(h, f, commands_) ==
    IF h[f].was_ended THEN R(h, AssertionError, None)
    ELSE R(AppendAll(h, h[f].current_mcfunction, commands_), NoErr, None)

Function_comment(h, f, t) == Function_add_command(h, f, <<Comment(t)>>)

\* c_if with the cursor advanced before the branch commands are emitted.
Function_c_if_cursor_first(h, f, condition) ==
    LET a == Namespace_create_function(h, f, Fmt("if", Len(h[f].children)))
        if_ == a.ret
        b == Namespace_create_mcfunction(
                 a.h, f, Fmt("if-continue", Len(a.h[f].children)))
        new_mcfunc == b.ret
        c == Function_add_command(
                 [b.h EXCEPT ![f].current_mcfunction = new_mcfunc], f,
                 <<ExecuteIf(condition, b.h[if_].entry_point),
                   ExecuteUnless(condition, new_mcfunc)>>)
    IN  IF c.err # NoErr THEN R(b.h, c.err, None)
        ELSE R([c.h EXCEPT ![if_].continuation = new_mcfunc], NoErr, if_)

\* c_if numbering the continuation unit like its then-branch.
Function_c_if_same_number(h, f, condition) ==
    LET a == Namespace_create_function(h, f, Fmt("if", Len(h[f].children)))
        if_ == a.ret
        b == Namespace_create_mcfunction(
                 a.h, f, Fmt("if-continue", Len(h[f].children)))
        new_mcfunc == b.ret
        c == Function_add_command(
                 b.h, f,
                 <<ExecuteIf(condition, b.h[if_].entry_point),
                   ExecuteUnless(condition, new_mcfunc)>>)
    IN  IF c.err # NoErr THEN c
        ELSE R([c.h EXCEPT ![f].current_mcfunction = new_mcfunc,
                           ![if_].continuation = new_mcfunc],
               NoErr, if_)

Function_c_if(h, f, condition) ==
    LET a == Namespace_create_function(h, f, Fmt("if", Len(h[f].children)))
        if_ == a.ret
        b == Namespace_create_mcfunction(
                 a.h, f, Fmt("if-continue", Len(a.h[f].children)))
        new_mcfunc == b.ret
        c == Function_add_command(
                 b.h, f,
                 <<ExecuteIf(condition, b.h[if_].entry_point),
                   ExecuteUnless(condition, new_mcfunc)>>)
    IN  IF c.err # NoErr THEN c
        ELSE R([c.h EXCEPT ![f].current_mcfunction = new_mcfunc,
                           ![if_].continuation = new_mcfunc],
               NoErr, if_)

\* end refusing to close a Function whose enclosing Function is closed.
Function_end_in_order(h, f) ==
    IF h[f].was_ended THEN R(h, NoErr, None)
    ELSE IF h[f].parent # None /\ h[h[f].parent].was_ended
    THEN R(h, AssertionError, None)
    ELSE R([h EXCEPT ![h[f].current_mcfunction].continuation =
                         h[f].continuation,
                     ![f].was_ended = TRUE],
           NoErr, None)

\* end without its early return.
Function_end_again(h, f) ==
    R([h EXCEPT ![h[f].current_mcfunction].continuation = h[f].continuation,
                ![f].was_ended = TRUE],
      NoErr, None)

Function_end(h, f) ==
    IF h[f].was_ended THEN R(h, NoErr, None)
    ELSE R([h EXCEPT ![h[f].current_mcfunction].continuation =
                         h[f].continuation,
                     ![f].was_ended = TRUE],
           NoErr, None)

Function_return_(h, f, var) ==
    Bind(Function_add_command(h, f, <<var_to_var(var, STD_RET)>>),
         LAMBDA g : R([g EXCEPT ![g[f].current_mcfunction].continuation = None],
                      NoErr, None))

Function_exit(h, f) == Function_end(h, f)

\* The standard library as the import of the package leaves it: the std
\* namespace, and the Function std_stack_push(stack_nr=STD_ARGSTACK) returns.
Import ==
    LET a == Namespace_init(<<>>, "Namespace", Plain("mcutils_reborn_std"))
        b == Namespace_create_function(a.h, a.ret, Plain("push"))
    IN  R(Function_end(b.h, b.ret).h, NoErr, a.ret)
std_namespace == Import.ret
std_stack_push == DictGet(Import.h[std_namespace].children, Plain("push"))

RECURSIVE Function_c_call_function(_, _, _, _, _)
RECURSIVE PushVarargs(_, _, _)
PushVarargs(r, f, varargs) ==
    IF varargs = <<>> THEN r
    ELSE PushVarargs(
             Bind(r, LAMBDA g : Function_c_call_function(
                                    g, f, std_stack_push, Head(varargs), <<>>)),
             f, Tail(varargs))

\* c_call_function setting the argument register before it pushes the
\* varargs.
Function_c_call_function_arg_first(h, f, function, arg, varargs) ==
    LET a == Function_comment(h, f, function)
        b == IF arg # None
             THEN Bind(a, LAMBDA g : Function_add_command(
                                         g, f, <<var_to_var(arg, STD_ARG)>>))
             ELSE a
        c == PushVarargs(b, f, varargs)
    IN  Bind(c, LAMBDA g : Function_add_command(
                               g, f, <<FunctionCall(g[function].entry_point)>>))

Function_c_call_function(h, f, function, arg, varargs) ==
    LET a == Function_comment(h, f, function)
        b == PushVarargs(a, f, varargs)
        c == IF arg # None
             THEN Bind(b, LAMBDA g : Function_add_command(
                                         g, f, <<var_to_var(arg, STD_ARG)>>))
             ELSE b
    IN  Bind(c, LAMBDA g : Function_add_command(
                               g, f, <<FunctionCall(g[function].entry_point)>>))

\* ----------------------------------------------------------------- Class
RECURSIVE Class_get(_, _, _)
RECURSIVE Class_get_parents(_, _, _, _)
\* The parents consulted from the last declared to the first.
Class_get_parents_reversed(h, parents, name, miss) ==
    IF parents = <<>> THEN miss
    ELSE LET r == Class_get(h, parents[Len(parents)], name)
         IN  IF r.err = KeyError
             THEN Class_get_parents(h, SubSeq(parents, 1, Len(parents) - 1),
                                    name, miss)
             ELSE r

Class_get_parents(h, parents, name, miss) ==
    IF parents = <<>> THEN miss
    ELSE LET r == IF h[Head(parents)].kind = "Class"
                  THEN Class_get(h, Head(parents), name)
                  ELSE Namespace_get(h, Head(parents), name)
         IN  IF r.err = KeyError
             THEN Class_get_parents(h, Tail(parents), name, miss)
             ELSE r

Class_get(h, c, name) ==
    LET r == Namespace_get(h, c, name)
    IN  IF r.err = KeyError
        THEN Class_get_parents(h, h[c].inherits_from, name, r)
        ELSE r

get(h, n, name) ==
    IF h[n].kind = "Class" THEN Class_get(h, n, name)
    ELSE Namespace_get(h, n, name)

\* ---------------------------------------------------------------- export
\* The result of get_all_mcfunctions: the dict ret, or the AssertionError
\* whose message names path.
Exported(err, p, ret) == [err |-> err, path |-> p, ret |-> ret]

RECURSIVE get_all_mcfunctions(_, _)
RECURSIVE CollectChildren(_, _, _, _)
\* The export pass asserting was_ended on Function children that are not
\* themselves children of a Function only.
CollectChildren_shallow(h, n, i, mcfunctions) ==
    IF i > Len(h[n].children) THEN Exported(NoErr, <<>>, mcfunctions)
    ELSE LET child == h[n].children[i].v
         IN  IF IsMCFunction(h, child)
             THEN CollectChildren(h, n, i + 1,
                      DictSet(mcfunctions, path(h, child), child))
             ELSE IF IsNamespace(h, child)
             THEN IF /\ IsFunction(h, child) /\ ~h[child].was_ended
                     /\ ~IsFunction(h, n)
                  THEN Exported(AssertionError, path(h, child), <<>>)
                  ELSE LET sub == get_all_mcfunctions(h, child)
                       IN  IF sub.err # NoErr THEN sub
                           ELSE CollectChildren(h, n, i + 1,
                                    DictUpdate(mcfunctions, sub.ret))
             ELSE CollectChildren(h, n, i + 1, mcfunctions)

\* The export pass keeping the entry it already has for a path.
DictKeep(d, k, v) == IF DictHas(d, k) THEN d ELSE DictSet(d, k, v)
RECURSIVE DictKeepAll(_, _)
DictKeepAll(d, e) ==
    IF e = <<>> THEN d
    ELSE DictKeepAll(DictKeep(d, Head(e).k, Head(e).v), Tail(e))
CollectChildren_first_wins(h, n, i, mcfunctions) ==
    IF i > Len(h[n].children) THEN Exported(NoErr, <<>>, mcfunctions)
    ELSE LET child == h[n].children[i].v
         IN  IF IsMCFunction(h, child)
             THEN CollectChildren(h, n, i + 1,
                      DictKeep(mcfunctions, path(h, child), child))
             ELSE IF IsNamespace(h, child)
             THEN IF IsFunction(h, child) /\ ~h[child].was_ended
                  THEN Exported(AssertionError, path(h, child), <<>>)
                  ELSE LET sub == get_all_mcfunctions(h, child)
                       IN  IF sub.err # NoErr THEN sub
                           ELSE CollectChildren(h, n, i + 1,
                                    DictKeepAll(mcfunctions, sub.ret))
             ELSE CollectChildren(h, n, i + 1, mcfunctions)

CollectChildren(h, n, i, mcfunctions) ==
    IF i > Len(h[n].children) THEN Exported(NoErr, <<>>, mcfunctions)
    ELSE LET child == h[n].children[i].v
         IN  IF IsMCFunction(h, child)
             THEN CollectChildren(h, n, i + 1,
                      DictSet(mcfunctions, path(h, child), child))
             ELSE IF IsNamespace(h, child)
             THEN IF IsFunction(h, child) /\ ~h[child].was_ended
                  THEN Exported(AssertionError, path(h, child), <<>>)
                  ELSE LET sub == get_all_mcfunctions(h, child)
                       IN  IF sub.err # NoErr THEN sub
                           ELSE CollectChildren(h, n, i + 1,
                                    DictUpdate(mcfunctions, sub.ret))
             ELSE CollectChildren(h, n, i + 1, mcfunctions)

get_all_mcfunctions(h, n) == CollectChildren(h, n, 1, <<>>)

\* -------------------------------------------------------------- Template
\* __call__ in its two halves, before and after the template callable runs.
\* tuple(kwargs.items()): the (name, value) pairs in the dict's order.
\* The key with the bindings in one canonical order (here by value).
converted_kwargs_sorted(kwargs) ==
    LET Before(i, j) == kwargs[i].v < kwargs[j].v
        Rank(i) == 1 + Cardinality({j \in 1..Len(kwargs) : Before(j, i)})
    IN  [r \in 1..Len(kwargs) |->
            LET i == CHOOSE i \in 1..Len(kwargs) : Rank(i) = r
            IN  <<kwargs[i].k, kwargs[i].v>>]

converted_kwargs(kwargs) ==
    [i \in 1..Len(kwargs) |-> <<kwargs[i].k, kwargs[i].v>>]

Template_call_hit(h, t, key) == DictHas(h[t].functions, key)

Template_call_return(h, t, key) == R(h, NoErr, DictGet(h[t].functions, key))

\* __call__ storing the Function without ending it.
Template_call_store_unended(h, t, key, func) ==
    LET b == [h EXCEPT ![t].functions = DictSet(@, key, func)]
    IN  Template_call_return(Namespace_add(b, t, func), t, key)

Template_call_store(h, t, key, func) ==
    LET a == Function_end(h, func)
        b == [a.h EXCEPT ![t].functions = DictSet(@, key, func)]
    IN  Template_call_return(Namespace_add(b, t, func), t, key)

\* ------------------------------------------------------------- the build
\* The user's root namespace, Namespace("ns"), next to the standard library.
Root == Namespace_init(Import.h, "Namespace", Plain("ns"))

\* What the build did last: the method op called on self with its arguments
\* (a name, the integers x and y, the sequence seq), what it returned or
\* raised, and for an export the dict out or the path the error names.
NoOp ==
    [op |-> "", self |-> None, name |-> Plain(""), x |-> None, y |-> None,
     seq |-> <<>>, ret |-> None, err |-> NoErr, path |-> <<>>, out |-> <<>>]
Did(op, self, r) ==
    [NoOp EXCEPT !.op = op, !.self = self, !.ret = r.ret, !.err = r.err]

Init ==
    /\ heap = Root.h
    /\ last = NoOp
    /\ stack = <<>>
    /\ log = <<>>
    /\ size = 0

Nodes(h) == {n \in 1..Len(h) : n >= Root.ret}
Namespaces(h) == {n \in Nodes(h) : IsNamespace(h, n)}
Functions(h) == {n \in Nodes(h) : IsFunction(h, n)}

FunctionNames == {Plain("f")}
Conditions == {1}
Expressions == {1}
Literals == {<<LiteralCommand(1)>>, <<LiteralCommand(1), LiteralCommand(2)>>}

\* size counts what the script has put into the tree so far: one for a
\* create_function, one for a c_if, one for each command it appended, one
\* for each assignment to an attribute.
Room(n) == size + n <= MaxScript
Grow(r, n) == size' = IF r.h = heap THEN size ELSE size + n

CreateFunction(p, name) ==
    /\ Room(1)
    /\ ~DictHas(heap[p].children, name)
    /\ LET r == Namespace_create_function(heap, p, name)
       IN  /\ heap' = r.h
           /\ last' = [Did("create_function", p, r) EXCEPT !.name = name]
           /\ Grow(r, 1)
    /\ UNCHANGED <<stack, log>>

AddCommand(f, commands_) ==
    /\ Room(Len(commands_))
    /\ LET r == Function_add_command(heap, f, commands_)
       IN  /\ heap' = r.h
           /\ last' = [Did("add_command", f, r) EXCEPT !.seq = commands_]
           /\ Grow(r, Len(commands_))
    /\ UNCHANGED <<stack, log>>

CIf(f, condition) ==
    /\ Room(1)
    /\ LET r == Function_c_if(heap, f, condition)
       IN  /\ heap' = r.h
           /\ last' = [Did("c_if", f, r) EXCEPT !.x = condition]
           /\ Grow(r, 1)
    /\ UNCHANGED <<stack, log>>

End(f) ==
    /\ LET r == Function_end(heap, f)
       IN  /\ heap' = r.h
           /\ last' = Did("end", f, r)
    /\ UNCHANGED <<stack, log, size>>

Exit(f) ==
    /\ LET r == Function_exit(heap, f)
       IN  /\ heap' = r.h
           /\ last' = Did("__exit__", f, r)
    /\ UNCHANGED <<stack, log, size>>

Return(f, var) ==
    /\ Room(1)
    /\ LET r == Function_return_(heap, f, var)
       IN  /\ heap' = r.h
           /\ last' = [Did("return_", f, r) EXCEPT !.x = var]
           /\ Grow(r, 1)
    /\ UNCHANGED <<stack, log>>

Export(n) ==
    /\ LET e == get_all_mcfunctions(heap, n)
       IN  last' = [Did("get_all_mcfunctions", n, R(heap, e.err, None))
                       EXCEPT !.path = e.path, !.out = e.ret]
    /\ UNCHANGED <<heap, stack, log, size>>

Next ==
    \/ \E name \in FunctionNames : CreateFunction(Root.ret, name)
    \/ \E f \in Functions(heap), commands_ \in Literals :
           AddCommand(f, commands_)
    \/ \E f \in Functions(heap), condition \in Conditions : CIf(f, condition)
    \/ \E f \in Functions(heap) : End(f)
    \/ \E f \in Functions(heap) : Exit(f)
    \/ \E f \in Functions(heap), var \in Expressions : Return(f, var)
    \/ \E n \in Namespaces(heap) : Export(n)

Spec == Init /\ [][Next]_vars

Units(h) == {n \in Nodes(h) : IsMCFunction(h, n)}
VarargValues == {1, 2}
Seqs(S, n) == UNION {[1..k -> S] : k \in 0..n}

\* ------------------------------------------------- assigning continuation
\* Function.continuation is a plain attribute: the script may assign it, as
\* c_if does for the then-branch.  The scripts explored do so after end().
SetContinuation(f, u) ==
    /\ Room(1)
    /\ heap[f].was_ended
    /\ heap[f].continuation # u
    /\ heap' = [heap EXCEPT ![f].continuation = u]
    /\ last' = [Did("continuation", f, R(heap, NoErr, None)) EXCEPT !.x = u]
    /\ size' = size + 1
    /\ UNCHANGED <<stack, log>>

NextReassign ==
    \/ \E name \in FunctionNames : CreateFunction(Root.ret, name)
    \/ \E f \in Functions(heap), condition \in Conditions : CIf(f, condition)
    \/ \E f \in Functions(heap) : End(f)
    \/ \E f \in Functions(heap) : Exit(f)
    \/ \E f \in Functions(heap), u \in Units(heap) \cup {None} :
           SetContinuation(f, u)

SpecReassign == Init /\ [][NextReassign]_vars

\* ------------------------------------------------------ calling functions
Arguments == {None, 3}
Callees(h) == Functions(h) \cup {std_stack_push}
Needed(arg, varargs) ==
    2 + 3 * Len(varargs) + (IF arg # None THEN 1 ELSE 0)

CCallFunction(f, function, arg, varargs) ==
    /\ Len(heap[heap[f].current_mcfunction].commands) + Needed(arg, varargs)
           <= MaxCallCmds
    /\ LET r == Function_c_call_function(heap, f, function, arg, varargs)
       IN  /\ heap' = r.h
           /\ last' = [Did("c_call_function", f, r)
                          EXCEPT !.x = function, !.y = arg, !.seq = varargs]
    /\ UNCHANGED <<stack, log, size>>

NextCall ==
    \/ \E name \in FunctionNames : CreateFunction(Root.ret, name)
    \/ \E f \in Functions(heap), function \in Callees(heap),
          arg \in Arguments, varargs \in Seqs(VarargValues, MaxVarargs) :
           CCallFunction(f, function, arg, varargs)
    \/ \E f \in Functions(heap) : End(f)

SpecCall == Init /\ [][NextCall]_vars

\* ------------------------------------------------------- resolving names
ClassNames == {Plain("A"), Plain("B"), Plain("C")}
SymbolNames == {Plain("x")}
LookupNames == {Plain("x"), Plain("y")}
Classes(h) == {n \in Nodes(h) : h[n].kind = "Class"}
Distinct(q) == \A i, j \in 1..Len(q) : i # j => q[i] # q[j]

DeclareClass(name, inherits_from) ==
    /\ ~DictHas(heap[Root.ret].children, name)
    /\ Distinct(inherits_from)
    /\ LET r == Namespace_create_class(heap, Root.ret, name, inherits_from)
       IN  /\ heap' = r.h
           /\ last' = [Did("create_class", Root.ret, r)
                          EXCEPT !.name = name, !.seq = inherits_from]
    /\ UNCHANGED <<stack, log, size>>

DefineSymbol(c, name) ==
    /\ ~DictHas(heap[c].children, name)
    /\ LET r == Namespace_create_mcfunction(heap, c, name)
       IN  /\ heap' = r.h
           /\ last' = [Did("create_mcfunction", c, r) EXCEPT !.name = name]
    /\ UNCHANGED <<stack, log, size>>

Get(n, name) ==
    /\ LET r == get(heap, n, name)
       IN  /\ heap' = r.h
           /\ last' = [Did("get", n, r) EXCEPT !.name = name]
    /\ UNCHANGED <<stack, log, size>>

NextClass ==
    \/ \E name \in ClassNames,
          inherits_from \in Seqs(Classes(heap), MaxParents) :
           DeclareClass(name, inherits_from)
    \/ \E c \in Classes(heap), name \in SymbolNames : DefineSymbol(c, name)
    \/ \E c \in Classes(heap), name \in LookupNames : Get(c, name)

SpecClass == Init /\ [][NextClass]_vars

\* ------------------------------------------------------ building the tree
TreeNames == {Plain("a"), Plain("b")}

Create(op, p, name, r) ==
    /\ size < MaxTree
    /\ heap' = r.h
    /\ last' = [Did(op, p, r) EXCEPT !.name = name]
    /\ Grow(r, 1)
    /\ UNCHANGED <<stack, log>>

CreateNamespace(p, name) ==
    Create("create_namespace", p, name,
           Namespace_create_namespace(heap, p, name))
CreateMCFunction(p, name) ==
    Create("create_mcfunction", p, name,
           Namespace_create_mcfunction(heap, p, name))
CreateFunctionTag(p, name) ==
    Create("create_function_tag", p, name,
           Namespace_create_function_tag(heap, p, name))
CreateClass(p, name) ==
    Create("create_class", p, name,
           Namespace_create_class(heap, p, name, <<>>))
CreateTemplate(p, name) ==
    Create("create_template", p, name,
           Namespace_create_template(heap, p, name))
CreateAnyFunction(p, name) ==
    Create("create_function", p, name,
           Namespace_create_function(heap, p, name))

NextTree ==
    \/ \E p \in Namespaces(heap), name \in TreeNames :
           CreateNamespace(p, name)
    \/ \E p \in Namespaces(heap), name \in TreeNames :
           CreateAnyFunction(p, name)
    \/ \E p \in Namespaces(heap), name \in TreeNames :
           CreateMCFunction(p, name)
    \/ \E p \in Namespaces(heap), name \in TreeNames :
           CreateFunctionTag(p, name)
    \/ \E p \in Namespaces(heap), name \in TreeNames : CreateClass(p, name)
    \/ \E p \in Namespaces(heap), name \in TreeNames :
           CreateTemplate(p, name)
    \/ \E p \in Namespaces(heap), name \in TreeNames : Get(p, name)
    \/ \E f \in Functions(heap) : End(f)
    \/ \E n \in Namespaces(heap) : Export(n)

SpecTree == Init /\ [][NextTree]_vars

\* ----------------------------------------------- instantiating templates
\* The keyword arguments of a call, a dict in the order the call gives them.
Kwargs ==
    {DictSet(DictSet(<<>>, "a", 1), "b", 2),
     DictSet(DictSet(<<>>, "b", 2), "a", 1)}
TemplateNames == {Plain("t")}
ProducedNames == {Plain("g"), Plain("h")}
Templates(h) == {n \in Nodes(h) : h[n].kind = "Template"}

\* log: every run of a template callable ("template") and every return of
\* __call__, from the cache ("hit") or after storing ("stored").
\* stack: the __call__ frames whose template callable is still running.
Event(ev, t, key, func) == [ev |-> ev, t |-> t, key |-> key, func |-> func]
Started == Len(SelectSeq(log, LAMBDA e : e.ev \in {"template", "hit"}))

DeclareTemplate(name) ==
    /\ ~DictHas(heap[Root.ret].children, name)
    /\ LET r == Namespace_create_template(heap, Root.ret, name)
       IN  /\ heap' = r.h
           /\ last' = [Did("create_template", Root.ret, r) EXCEPT !.name = name]
    /\ UNCHANGED <<stack, log, size>>

InstantiateHit(t, kwargs) ==
    LET key == converted_kwargs(kwargs)
    IN  /\ Started < MaxCalls
        /\ Template_call_hit(heap, t, key)
        /\ LET r == Template_call_return(heap, t, key)
           IN  /\ heap' = r.h
               /\ last' = [Did("__call__", t, r) EXCEPT !.seq = key]
               /\ log' = Append(log, Event("hit", t, key, r.ret))
        /\ UNCHANGED <<stack, size>>

InstantiateMiss(t, kwargs) ==
    LET key == converted_kwargs(kwargs)
    IN  /\ Started < MaxCalls
        /\ Len(stack) < MaxDepth
        /\ ~Template_call_hit(heap, t, key)
        /\ stack' = Append(stack, Event("template", t, key, None))
        /\ log' = Append(log, Event("template", t, key, None))
        /\ last' = [Did("template", t, R(heap, NoErr, None)) EXCEPT !.seq = key]
        /\ UNCHANGED <<heap, size>>

\* The running template callable builds its Function in a namespace.
TemplateBody(p, name) ==
    /\ stack # <<>>
    /\ stack[Len(stack)].func = None
    /\ LET r == Namespace_create_function(heap, p, name)
       IN  /\ heap' = r.h
           /\ stack' = [stack EXCEPT ![Len(stack)].func = r.ret]
           /\ last' = [Did("create_function", p, r) EXCEPT !.name = name]
    /\ UNCHANGED <<log, size>>

TemplateReturn ==
    /\ stack # <<>>
    /\ stack[Len(stack)].func # None
    /\ LET top == stack[Len(stack)]
           r == Template_call_store(heap, top.t, top.key, top.func)
       IN  /\ heap' = r.h
           /\ last' = [Did("__call__", top.t, r) EXCEPT !.seq = top.key]
           /\ log' = Append(log, Event("stored", top.t, top.key, r.ret))
    /\ stack' = SubSeq(stack, 1, Len(stack) - 1)
    /\ UNCHANGED size

NextTemplate ==
    \/ \E name \in TemplateNames : DeclareTemplate(name)
    \/ \E t \in Templates(heap), kwargs \in Kwargs : InstantiateHit(t, kwargs)
    \/ \E t \in Templates(heap), kwargs \in Kwargs : InstantiateMiss(t, kwargs)
    \/ \E p \in {Root.ret} \cup Templates(heap), name \in ProducedNames :
           TemplateBody(p, name)
    \/ TemplateReturn

SpecTemplate == Init /\ [][NextTemplate]_vars

\* ------------------------------------------------- adding pre-built nodes
\* The script constructs a node itself and hands it to add.
AddKinds == {"Namespace", "MCFunction", "Function"}
Construct(h, kind, name) ==
    IF kind = "MCFunction" THEN MCFunction_init(h, name)
    ELSE IF kind = "Function" THEN Function_init(h, name)
    ELSE IF kind = "Class" THEN Class_init(h, name, <<>>)
    ELSE IF kind = "Template" THEN Template_init(h, name)
    ELSE Namespace_init(h, kind, name)

Add(p, kind, name) ==
    /\ size < MaxAdds
    /\ LET a == Construct(heap, kind, name)
           r == R(Namespace_add(a.h, p, a.ret), NoErr, a.ret)
       IN  /\ heap' = r.h
           /\ last' = [Did("add", p, r) EXCEPT !.name = name]
    /\ size' = size + 1
    /\ UNCHANGED <<stack, log>>

NextAdd ==
    \/ \E p \in Namespaces(heap), kind \in AddKinds, name \in TreeNames :
           Add(p, kind, name)
    \/ \E p \in Namespaces(heap), name \in TreeNames : Get(p, name)

SpecAdd == Init /\ [][NextAdd]_vars

\* ------------------------------------------------- running the export
\* The target engine runs a unit's commands in order; a function call runs
\* the called unit to its end and comes back to the next command (as
\* c_call_function relies on); an 'execute if' or 'execute unless' tests its
\* condition when its turn comes; and a unit that has a continuation calls
\* it after its last command.  A condition c holds while c is in the store,
\* and the command LiteralCommand(c) takes it out.  st is the store and the
\* trace of the units entered so far; depth bounds the nesting of calls.
RECURSIVE ExecUnit(_, _, _, _)
RECURSIVE ExecCommands(_, _, _, _, _)
ExecCommand(h, command, st, depth) ==
    IF command.k = "LiteralCommand"
    THEN [st EXCEPT !.store = @ \ {command.c}]
    ELSE IF command.k = "FunctionCall"
    THEN ExecUnit(h, command.t, st, depth)
    ELSE IF command.k = "execute if"
    THEN IF command.c \in st.store
         THEN ExecUnit(h, command.t, st, depth) ELSE st
    ELSE IF command.k = "execute unless"
    THEN IF command.c \notin st.store
         THEN ExecUnit(h, command.t, st, depth) ELSE st
    ELSE st

ExecCommands(h, commands_, i, st, depth) ==
    IF i > Len(commands_) THEN st
    ELSE ExecCommands(h, commands_, i + 1,
                      ExecCommand(h, commands_[i], st, depth), depth)

ExecUnit(h, u, st, depth) ==
    IF depth = 0 THEN st
    ELSE LET entered == [st EXCEPT !.trace = Append(@, u)]
             done == ExecCommands(h, h[u].commands, 1, entered, depth - 1)
         IN  IF h[u].continuation # None
             THEN ExecUnit(h, h[u].continuation, done, depth - 1)
             ELSE done

Run(h, u, store) ==
    ExecUnit(h, u, [store |-> store, trace |-> <<>>], Len(h)).trace

\* ------------------------------------------------------------ vocabulary
Children(h, n) == {h[n].children[i].v : i \in 1..Len(h[n].children)}
RECURSIVE Reach(_, _, _)
Reach(h, S, k) ==
    LET T == S \cup UNION {Children(h, n) : n \in S}
    IN  IF k = 0 \/ T = S THEN S ELSE Reach(h, T, k - 1)
\* What a namespace's tree holds below it, at any depth.
Tree(h, n) == Reach(h, Children(h, n), Len(h))
Unended(h, n) == {g \in Tree(h, n) : IsFunction(h, g) /\ ~h[g].was_ended}

IsBranch(c) == c.k \in {"execute if", "execute unless"}
Returns(h, u) ==
    \E i \in 1..Len(h[u].commands) :
        h[u].commands[i] \in {var_to_var(e, STD_RET) : e \in Expressions}
SameCommands(h, g, S) == \A u \in S : g[u].commands = h[u].commands
Fresh(h, g) == (1..Len(g)) \ (1..Len(h))

\* ------------------------------------------------------ exporting a tree
\* Trees below the root namespace of units, Functions, Classes and
\* Templates, in which a Template may add a Function that another namespace
\* holds already (as Template.__call__ does with the Function its callable
\* made): the Function then has two bindings and the parent set last.  The
\* trees stay trees: no node is added below itself.
ExportNodes ==
    {<<"MCFunction", Plain("a")>>, <<"Function", Plain("a")>>,
     <<"Class", Plain("b")>>, <<"Template", Plain("b")>>}

RECURSIVE Ancestors(_, _)
Ancestors(h, n) ==
    IF h[n].parent = None THEN {}
    ELSE {h[n].parent} \cup Ancestors(h, h[n].parent)
Attached(h) == {Root.ret} \cup Tree(h, Root.ret)

AddAgain(p, c) ==
    /\ Len(log) < MaxMoves
    /\ heap[c].parent # p
    /\ p \notin {c} \cup Reach(heap, {c}, Len(heap))
    /\ c \notin Ancestors(heap, p)
    /\ heap' = Namespace_add(heap, p, c)
    /\ last' = [Did("add", p, R(heap, NoErr, c)) EXCEPT !.name = heap[c].name]
    /\ log' = Append(log, Event("add", p, <<>>, c))
    /\ UNCHANGED <<stack, size>>

NextExport ==
    \/ \E p \in Namespaces(heap) \cap Attached(heap), node \in ExportNodes :
           Add(p, node[1], node[2])
    \/ \E p \in Templates(heap) \cap Attached(heap),
          c \in Functions(heap) \cap Attached(heap) :
           AddAgain(p, c)
    \/ \E f \in Functions(heap) \cap Attached(heap) : End(f)
    \/ \E n \in Namespaces(heap) \cap Attached(heap) : Export(n)

SpecExport == Init /\ [][NextExport]_vars

\* ---------------------------------------------------------------- claims

\* C1 (as claimed): a unit in which return_ was called has no continuation,
\* and has none in any later state of the build, also after its Function
\* was ended.
C1_ReturnNeverFallsThrough ==
    \A u \in Units(heap) : Returns(heap, u) => heap[u].continuation = None

\* The build of the end-to-end scenario: Function f of the root with one
\* command, one c_if, one command in the then-branch, everything ended, and
\* the export of the root.
C2_Scenario ==
    /\ last.op = "get_all_mcfunctions" /\ last.self = Root.ret
    /\ Len(heap) = Root.ret + 5 /\ size = 4
    /\ \A g \in Functions(heap) : heap[g].was_ended
    /\ \E f \in Children(heap, Root.ret), g \in Functions(heap) :
          /\ heap[f].name = Plain("f") /\ heap[g].parent = f
          /\ heap[f].current_mcfunction # heap[f].entry_point
          /\ Len(heap[heap[f].entry_point].commands) > 0
          /\ ~IsBranch(heap[heap[f].entry_point].commands[1])
          /\ Len(heap[heap[g].entry_point].commands) = 1
C2_Names(thenName, continueName) ==
    LET f == DictGet(heap[Root.ret].children, Plain("f"))
        entry == heap[f].entry_point
        g == CHOOSE g \in Functions(heap) : heap[g].parent = f
        u == heap[f].current_mcfunction
    IN  /\ last.err = NoErr
        /\ Len(last.out) = 3
        /\ {last.out[i].v : i \in 1..3} = {entry, heap[g].entry_point, u}
        /\ heap[g].name = thenName /\ heap[u].name = continueName
        /\ path(heap, u) = <<Plain("ns"), Plain("f"), continueName>>
        /\ path(heap, heap[g].entry_point) =
               <<Plain("ns"), Plain("f"), thenName, thenName>>
        /\ \A i \in 1..3 : last.out[i].k = path(heap, last.out[i].v)
        /\ Len(heap[entry].commands) = 3
        /\ heap[entry].commands[2] \in
               {ExecuteIf(c, heap[g].entry_point) : c \in Conditions}
        /\ heap[entry].commands[3] \in
               {ExecuteUnless(c, u) : c \in Conditions}

\* C2 (as claimed): the scenario exports exactly three units, f, the
\* then-branch if0 and if-continue0, and f's entry unit holds 3 commands.
C2_ExportsIf0 ==
    C2_Scenario => C2_Names(Fmt("if", 0), Fmt("if-continue", 0))

\* C2 (amended): the scenario exports exactly three units, f's entry unit,
\* the entry unit of the then-branch if1 and if-continue2 (each numbered
\* with the count of f's children when it was created), and f's entry unit
\* holds 3 commands: the original one and the two branch-dispatch commands.
C2_ExportsIf1 ==
    C2_Scenario => C2_Names(Fmt("if", 1), Fmt("if-continue", 2))

C2_Witness == C2_Scenario /\ Len(last.out) = 3

\* C3: a c_if on an un-ended Function appends the 'if' command and then the
\* 'unless' command to the unit that was current, and nothing to any other
\* unit; the then-branch it returns and the new continuation unit are
\* distinct; the then-branch's continuation is the continuation unit, the
\* cursor moves to it, and no later step (an end of the then-branch
\* included) changes a Function's continuation.
C3_Step ==
    LET f == last'.self
        u == heap[f].current_mcfunction
        if_ == last'.ret
        new == heap'[f].current_mcfunction
    IN  /\ (last'.op = "c_if" /\ ~heap[f].was_ended) =>
              /\ last'.err = NoErr
              /\ if_ \in Fresh(heap, heap') /\ IsFunction(heap', if_)
              /\ new \in Fresh(heap, heap') /\ IsMCFunction(heap', new)
              /\ if_ # new /\ heap'[if_].entry_point # new
              /\ heap'[u].commands =
                     heap[u].commands \o
                         <<ExecuteIf(last'.x, heap'[if_].entry_point),
                           ExecuteUnless(last'.x, new)>>
              /\ SameCommands(heap, heap', (1..Len(heap)) \ {u})
              /\ \A n \in Fresh(heap, heap') : heap'[n].commands = <<>>
              /\ heap'[if_].continuation = new
        /\ \A g \in Functions(heap) :
               heap'[g].continuation = heap[g].continuation
C3_IfLowering == [][C3_Step]_vars

C3_Witness ==
    /\ last.op \in {"end", "__exit__"}
    /\ heap[last.self].continuation # None
    /\ heap[heap[last.self].current_mcfunction].continuation =
           heap[last.self].continuation
    /\ Len(heap[heap[heap[last.self].parent].entry_point].commands) = 2

\* C5: an export fails exactly when the namespace's tree holds an un-ended
\* Function, at whatever depth; it then returns no mapping and the error
\* names the path of an un-ended Function of that tree.
C5_ExportRejectsUnended ==
    last.op = "get_all_mcfunctions" =>
        IF Unended(heap, last.self) = {}
        THEN last.err = NoErr
        ELSE /\ last.err = AssertionError
             /\ last.out = <<>>
             /\ \E g \in Unended(heap, last.self) :
                    last.path = path(heap, g)

C5_Witness ==
    /\ last.op = "get_all_mcfunctions" /\ last.self = Root.ret
    /\ last.err = AssertionError
    /\ \E g \in Unended(heap, Root.ret) :
          /\ last.path = path(heap, g)
          /\ IsFunction(heap, heap[g].parent)
          /\ heap[heap[g].parent].was_ended

\* C6: add_command on an ended Function raises and changes nothing; on an
\* un-ended one it appends its commands, in order, to the current unit and
\* changes nothing else.
C6_Step ==
    LET f == last'.self
        u == heap[f].current_mcfunction
    IN  last'.op = "add_command" =>
            IF heap[f].was_ended
            THEN last'.err = AssertionError /\ heap' = heap
            ELSE /\ last'.err = NoErr
                 /\ heap' = [heap EXCEPT
                                ![u].commands = @ \o last'.seq]
C6_AddCommand == [][C6_Step]_vars

C6_Witness ==
    /\ last.op = "add_command" /\ last.err = AssertionError
    /\ heap[last.self].was_ended
    /\ Len(last.seq) = 2

\* C4 (as claimed): however the instantiations of a Template nest, its
\* callable runs at most once for a binding key, and all instantiations
\* with that key return the same Function.
C4_TemplateRunsOnce ==
    \A i, j \in 1..Len(log) :
        (log[i].t = log[j].t /\ log[i].key = log[j].key) =>
            /\ (log[i].ev = "template" /\ log[j].ev = "template") => i = j
            /\ (log[i].ev # "template" /\ log[j].ev # "template") =>
                   log[i].func = log[j].func

\* C7: an end() (or a scoped exit) of a Function that was already ended
\* changes nothing in the tree, also after the Function's continuation was
\* assigned anew.
C7_Step ==
    (last'.op \in {"end", "__exit__"} /\ heap[last'.self].was_ended) =>
        heap' = heap /\ last'.err = NoErr
C7_EndIdempotent == [][C7_Step]_vars

C7_Witness ==
    /\ last.op \in {"end", "__exit__"}
    /\ heap[last.self].was_ended
    /\ heap[heap[last.self].current_mcfunction].continuation #
           heap[last.self].continuation

\* C8: Class.get returns the Class's own child of the name when it has one;
\* otherwise what the first declared parent that knows the name returns;
\* and raises KeyError when neither the Class nor a parent knows it.
C8_Resolves(c, name) ==
    LET r == get(heap, c, name)
        parents == heap[c].inherits_from
        Hits == {i \in 1..Len(parents) :
                    get(heap, parents[i], name).err = NoErr}
    IN  /\ r.h = heap
        /\ IF DictHas(heap[c].children, name)
           THEN r.err = NoErr /\ r.ret = DictGet(heap[c].children, name)
           ELSE IF Hits # {}
           THEN LET i == CHOOSE i \in Hits : \A j \in Hits : i <= j
                IN  r.err = NoErr /\ r.ret = get(heap, parents[i], name).ret
           ELSE r.err = KeyError
C8_ClassGet ==
    /\ \A c \in Classes(heap), name \in LookupNames : C8_Resolves(c, name)
    /\ (last.op = "get" /\ last.self \in Classes(heap)) =>
           /\ last.ret = get(heap, last.self, last.name).ret
           /\ last.err = get(heap, last.self, last.name).err

C8_Witness ==
    /\ last.op = "get" /\ last.self \in Classes(heap)
    /\ ~DictHas(heap[last.self].children, last.name)
    /\ LET parents == heap[last.self].inherits_from
       IN  /\ Len(parents) = 2
           /\ \A i \in 1..2 : DictHas(heap[parents[i]].children, last.name)
           /\ last.ret = DictGet(heap[parents[1]].children, last.name)

\* The create_<kind> operations and the kind each makes.
CreatedKind ==
    [create_namespace |-> "Namespace", create_function |-> "Function",
     create_mcfunction |-> "MCFunction", create_function_tag |-> "FunctionTag",
     create_class |-> "Class", create_template |-> "Template"]
Inserted ==
    /\ last.ret \in Fresh(<<>>, heap)
    /\ heap[last.ret].kind = CreatedKind[last.op]
    /\ heap[last.ret].name = last.name
    /\ heap[last.ret].parent = last.self
    /\ get(heap, last.self, last.name) = R(heap, NoErr, last.ret)

\* C9: right after any create_<kind>, function tags included,
\* the created node has the namespace as parent and get(its name) returns
\* it.
C9_EveryCreateInserts == last.op \in DOMAIN CreatedKind => Inserted

\* C10: c_call_function appends to the caller's current unit, comments
\* aside: for each vararg in order the argument register set to it and a
\* call of the stack-push routine's entry unit, then the argument register
\* set to arg if one is given, then the call of the callee's entry unit;
\* it changes nothing else of the tree.
RECURSIVE C10_Pushes(_)
C10_Pushes(varargs) ==
    IF varargs = <<>> THEN <<>>
    ELSE <<var_to_var(Head(varargs), STD_ARG),
           FunctionCall(heap[std_stack_push].entry_point)>>
             \o C10_Pushes(Tail(varargs))
C10_Step ==
    LET f == last'.self
        u == heap[f].current_mcfunction
        old == heap[u].commands
        new == heap'[u].commands
        added == SubSeq(new, Len(old) + 1, Len(new))
    IN  (last'.op = "c_call_function" /\ ~heap[f].was_ended) =>
            /\ last'.err = NoErr
            /\ SubSeq(new, 1, Len(old)) = old
            /\ SelectSeq(added, LAMBDA c : c.k # "Comment") =
                   C10_Pushes(last'.seq)
                     \o (IF last'.y # None
                         THEN <<var_to_var(last'.y, STD_ARG)>> ELSE <<>>)
                     \o <<FunctionCall(heap[last'.x].entry_point)>>
            /\ heap' = [heap EXCEPT ![u].commands = new]
C10_CallConvention == [][C10_Step]_vars

C10_Witness ==
    /\ last.op = "c_call_function" /\ last.err = NoErr
    /\ Len(last.seq) = 2 /\ last.y # None
    /\ last.x # std_stack_push
    /\ Len(heap[heap[last.self].current_mcfunction].commands) = 9

\* C11: an add under a name the namespace already binds replaces the
\* binding: get(name) then returns the new child and the namespace has as
\* many children as before; the replaced child keeps the namespace as its
\* parent, and every other binding is as it was.
C11_Step ==
    LET p == last'.self
        name == last'.name
        old == DictGet(heap[p].children, name)
    IN  (last'.op = "add" /\ DictHas(heap[p].children, name)) =>
            /\ last'.ret \in Fresh(heap, heap') /\ last'.ret # old
            /\ Namespace_get(heap', p, name) = R(heap', NoErr, last'.ret)
            /\ Len(heap'[p].children) = Len(heap[p].children)
            /\ Cardinality({heap'[p].children[i].k :
                               i \in 1..Len(heap'[p].children)})
                   = Len(heap'[p].children)
            /\ heap'[old].parent = p
            /\ \A i \in 1..Len(heap[p].children) :
                   heap[p].children[i].k # name =>
                       heap'[p].children[i] = heap[p].children[i]
C11_AddReplaces == [][C11_Step]_vars

C11_Witness ==
    /\ last.op = "add" /\ Len(heap[last.self].children) = 2
    /\ \E old \in Nodes(heap) :
          /\ old # last.ret /\ heap[old].name = last.name
          /\ heap[old].parent = last.self
          /\ old \notin Children(heap, last.self)

\* The k-th ancestor of a node (the node itself for k = 0) and the number of
\* ancestors it has.
RECURSIVE Ancestor(_, _, _)
Ancestor(h, n, k) == IF k = 0 THEN n ELSE Ancestor(h, h[n].parent, k - 1)
Depth(h, n) ==
    CHOOSE k \in 0..Len(h) :
        /\ \A j \in 0..k : Ancestor(h, n, j) # None
        /\ h[Ancestor(h, n, k)].parent = None

\* C12: the path of a node without a parent is its own name alone, the path
\* of any other node is its parent's path with its own name appended, so a
\* path lists the names from the outermost ancestor down to the node; and
\* the path of a Function's entry unit is the Function's path followed by
\* the Function's name.
C12_PathIsParentPathPlusName ==
    /\ \A n \in 1..Len(heap) :
          LET d == Depth(heap, n)
          IN  /\ heap[n].parent = None => path(heap, n) = <<heap[n].name>>
              /\ heap[n].parent # None =>
                     path(heap, n) =
                         path(heap, heap[n].parent) \o <<heap[n].name>>
              /\ path(heap, n) =
                     [i \in 1..(d + 1) |->
                         heap[Ancestor(heap, n, d + 1 - i)].name]
    /\ \A f \in 1..Len(heap) :
          IsFunction(heap, f) =>
              path(heap, heap[f].entry_point) =
                  path(heap, f) \o <<heap[f].name>>

C12_Witness ==
    \E f \in Functions(heap) :
          /\ Len(path(heap, f)) = 3
          /\ path(heap, heap[f].entry_point) =
                 <<Plain("ns"), heap[heap[f].parent].name, heap[f].name,
                   heap[f].name>>

\* C13: once a Function was ended, an add_command, comment,
\* c_call_function, c_if or return_ on it raises and leaves the tree as it
\* was: no new child, the same cursor, commands and continuation links.
C13_Step ==
    (/\ last'.op \in {"add_command", "comment", "c_call_function", "c_if",
                      "return_"}
     /\ heap[last'.self].was_ended) =>
        /\ last'.err = AssertionError
        /\ heap' = heap
C13_EndFreezes == [][C13_Step]_vars

\* The c_if dispatches of the tree: the unit and the position of an
\* 'execute if' that is followed by its 'execute unless'.
Dispatches(h) ==
    {d \in Units(h) \X (1..MaxScript) :
        /\ d[2] < Len(h[d[1]].commands)
        /\ h[d[1]].commands[d[2]].k = "execute if"
        /\ h[d[1]].commands[d[2] + 1].k = "execute unless"}
Count(q, x) == Cardinality({i \in 1..Len(q) : q[i] = x})

\* C14: for a c_if whose then-branch, with everything nested in it, was
\* ended and holds no return_, a run of the dispatching unit enters the
\* then-branch at most once and the continuation unit exactly once,
\* whatever the condition is at the start and whatever the then-branch
\* does to it.
C14_BranchAndMerge ==
    \A d \in Dispatches(heap) :
        LET entry == heap[d[1]].commands[d[2]].t
            g == heap[entry].parent
            continue == heap[d[1]].commands[d[2] + 1].t
            inside == {g} \cup Tree(heap, g)
        IN  (/\ \A n \in inside : IsFunction(heap, n) => heap[n].was_ended
             /\ \A n \in inside : IsMCFunction(heap, n) => ~Returns(heap, n)) =>
                \A store \in SUBSET Conditions :
                    LET trace == Run(heap, d[1], store)
                    IN  /\ Count(trace, entry) <= 1
                        /\ Count(trace, continue) = 1

\* The Functions a Template's cache holds, and the Function the Template
\* stored last under a name.
Cached(h, t) == {h[t].functions[i].v : i \in 1..Len(h[t].functions)}
StoredAs(t, name) ==
    {i \in 1..Len(log) : /\ log[i].ev = "stored" /\ log[i].t = t
                         /\ heap[log[i].func].name = name}
LastStored(t, name) ==
    log[CHOOSE i \in StoredAs(t, name) : \A j \in StoredAs(t, name) : j <= i]
        .func

\* C15 (as claimed): when no instantiation is running, every Function a
\* Template's cache holds was ended, has the Template as parent and is the
\* child the Template binds to the Function's name, also when two keys
\* produced Functions of the same name.
C15_CachedAreChildren ==
    stack = <<>> =>
        \A t \in Templates(heap) : \A func \in Cached(heap, t) :
            /\ heap[func].was_ended
            /\ heap[func].parent = t
            /\ Namespace_get(heap, t, heap[func].name) = R(heap, NoErr, func)

\* C15 (amended): when no instantiation is running, every Function a
\* Template's cache holds was ended and has the Template as parent, and the
\* child the Template binds to its name is the Function the Template stored
\* last under that name: a cached Function is a child of the Template
\* unless a Function of the same name was stored after it.
C15_CachedUnlessReplaced ==
    stack = <<>> =>
        \A t \in Templates(heap) : \A func \in Cached(heap, t) :
            /\ heap[func].was_ended
            /\ heap[func].parent = t
            /\ StoredAs(t, heap[func].name) # {}
            /\ Namespace_get(heap, t, heap[func].name) =
                   R(heap, NoErr, LastStored(t, heap[func].name))
            /\ func \in Tree(heap, t) <=>
                   func = LastStored(t, heap[func].name)

C15_Witness ==
    /\ stack = <<>>
    /\ \E t \in Templates(heap) : \E f1, f2 \in Cached(heap, t) :
          /\ f1 # f2 /\ heap[f1].name = heap[f2].name
          /\ Namespace_get(heap, t, heap[f1].name).ret = f2
          /\ f1 \notin Tree(heap, t)
          /\ heap[f1].parent = t /\ heap[f1].was_ended

\* The units below a namespace in the order the export pass meets them: the
\* children in the order of their binding, a namespace's units where the
\* namespace stands.
RECURSIVE Visit(_, _)
RECURSIVE VisitFrom(_, _, _)
VisitFrom(h, n, i) ==
    IF i > Len(h[n].children) THEN <<>>
    ELSE LET child == h[n].children[i].v
         IN  (IF IsMCFunction(h, child) THEN <<child>>
              ELSE IF IsNamespace(h, child) THEN Visit(h, child)
              ELSE <<>>) \o VisitFrom(h, n, i + 1)
Visit(h, n) == VisitFrom(h, n, 1)
LastWithPath(h, visit, p) ==
    visit[CHOOSE i \in 1..Len(visit) :
              /\ path(h, visit[i]) = p
              /\ \A j \in (i + 1)..Len(visit) : path(h, visit[j]) # p]

\* C16: the export of a namespace below which every Function was ended
\* raises nothing and changes nothing in the tree; the mapping it returns
\* has one entry for the path of every unit below the namespace, at any
\* depth, and no other entry; every entry is keyed by the path of its unit;
\* and of several units with the same path the entry holds the one met
\* last.
C16_Step ==
    LET n == last'.self
        out == last'.out
        units == {u \in Tree(heap, n) : IsMCFunction(heap, u)}
        visit == Visit(heap, n)
    IN  (last'.op = "get_all_mcfunctions" /\ Unended(heap, n) = {}) =>
            /\ heap' = heap
            /\ last'.err = NoErr
            /\ {visit[i] : i \in 1..Len(visit)} = units
            /\ Cardinality({out[i].k : i \in 1..Len(out)}) = Len(out)
            /\ {out[i].k : i \in 1..Len(out)} = {path(heap, u) : u \in units}
            /\ \A i \in 1..Len(out) :
                  /\ out[i].v \in units
                  /\ out[i].k = path(heap, out[i].v)
                  /\ out[i].v = LastWithPath(heap, visit, out[i].k)
C16_ExportCollects == [][C16_Step]_vars

C16_Witness ==
    /\ last.op = "get_all_mcfunctions" /\ last.self = Root.ret
    /\ last.err = NoErr /\ Len(last.out) = 1
    /\ \E u1, u2 \in Tree(heap, Root.ret) :
          /\ IsMCFunction(heap, u1) /\ IsMCFunction(heap, u2)
          /\ u1 < u2 /\ path(heap, u1) = path(heap, u2)
          /\ Len(path(heap, u1)) = 4
          /\ last.out[1].v = u1
          /\ heap[heap[heap[u1].parent].parent].kind = "Template"

\* One build step on a Function, and the steps there are.
BuildSteps ==
    ({"add_command"} \X Literals) \cup ({"c_if"} \X Conditions)
        \cup ({"return_"} \X Expressions) \cup ({"end"} \X {None})
Apply(h, g, s) ==
    IF s[1] = "add_command" THEN Function_add_command(h, g, s[2])
    ELSE IF s[1] = "c_if" THEN Function_c_if(h, g, s[2])
    ELSE IF s[1] = "return_" THEN Function_return_(h, g, s[2])
    ELSE Function_end(h, g)
Wiring(h) == [n \in 1..Len(h) |-> h[n].continuation]
\* The un-ended then-branches opened, at any depth, inside a Function.
OpenBranches(h, f) ==
    {g \in Functions(h) : f \in Ancestors(h, g) /\ ~h[g].was_ended}

\* C17 (as claimed): ending a Function before a then-branch opened inside
\* it raises no error, and once the then-branch is ended too the
\* continuation wiring differs from the wiring the same steps give with the
\* then-branch ended first.
C17_StepClaimed ==
    LET f == last'.self
    IN  (last'.op \in {"end", "__exit__"} /\ ~heap[f].was_ended) =>
            /\ last'.err = NoErr
            /\ \A g \in OpenBranches(heap, f) :
                   Wiring(Function_end(heap', g).h) #
                       Wiring(Function_end(Function_end(heap, g).h, f).h)
C17_OutOfOrderDiffers == [][C17_StepClaimed]_vars

\* C17 (amended): ending a Function before a then-branch opened inside it
\* raises no error, and every later step on the then-branch, its end
\* included, raises nothing and leaves the tree, continuation wiring
\* included, exactly as the same step followed by the end of the enclosing
\* Function leaves it.
C17_Step ==
    LET f == last'.self
    IN  (last'.op \in {"end", "__exit__"} /\ ~heap[f].was_ended) =>
            /\ last'.err = NoErr
            /\ \A g \in OpenBranches(heap, f), s \in BuildSteps :
                   LET early == Apply(heap', g, s)
                       late == Function_end(Apply(heap, g, s).h, f)
                   IN  /\ early.err = NoErr /\ late.err = NoErr
                       /\ early.h = late.h
C17_OutOfOrderSame == [][C17_Step]_vars

C17_Witness ==
    /\ last.op \in {"end", "__exit__"} /\ last.err = NoErr
    /\ heap[last.self].was_ended
    /\ \E f \in Ancestors(heap, last.self) :
          /\ IsFunction(heap, f) /\ heap[f].was_ended
          /\ heap[last.self].continuation = heap[f].current_mcfunction
          /\ heap[heap[last.self].current_mcfunction].continuation =
                 heap[f].current_mcfunction
          /\ \E g \in OpenBranches(heap, last.self) :
                 heap[g].continuation = heap[last.self].current_mcfunction

\* Two keys that hold the same bindings.
SameBindings(k1, k2) ==
    {k1[i] : i \in 1..Len(k1)} = {k2[i] : i \in 1..Len(k2)}
Runs(t, key) ==
    {i \in 1..Len(log) :
        log[i].ev = "template" /\ log[i].t = t /\ log[i].key = key}

\* C18: the cache key of an instantiation is the sequence of its (name,
\* value) bindings in the order given, so the same bindings in two orders
\* are two keys: an instantiation never returns the Function stored for
\* the other order, the template callable runs for each order, once each
\* when there is one instantiation per order, and the Functions returned
\* for the two orders are different objects.
C18_KeysAreOrdered ==
    /\ \A kwargs \in Kwargs :
          /\ Len(converted_kwargs(kwargs)) = Len(kwargs)
          /\ \A i \in 1..Len(kwargs) :
                 converted_kwargs(kwargs)[i] = <<kwargs[i].k, kwargs[i].v>>
    /\ \A k1, k2 \in Kwargs :
          k1 # k2 => converted_kwargs(k1) # converted_kwargs(k2)
    /\ \A i, j \in 1..Len(log) :
          (/\ log[i].t = log[j].t /\ log[i].key # log[j].key
           /\ SameBindings(log[i].key, log[j].key)) =>
              /\ \E k \in Runs(log[i].t, log[i].key) : k <= i
              /\ (log[i].ev # "template" /\ log[j].ev # "template") =>
                     log[i].func # log[j].func
              /\ Started = 2 =>
                     /\ Cardinality(Runs(log[i].t, log[i].key)) = 1
                     /\ log[i].ev # "hit"

C18_Witness ==
    /\ stack = <<>> /\ Started = 2
    /\ \E t \in Templates(heap) :
          /\ Len(heap[t].functions) = 2
          /\ heap[t].functions[1].k # heap[t].functions[2].k
          /\ SameBindings(heap[t].functions[1].k, heap[t].functions[2].k)
          /\ heap[t].functions[1].v # heap[t].functions[2].v
    /\ last.op = "__call__"

\* The nodes made as children of a Function: its entry unit by the
\* constructor, a then-branch and a continuation unit by each c_if.
MadeIn(h, f) == {n \in Nodes(h) : h[n].parent = f}

\* C19: a Function on which c_if was called k times has 1 + 2k children:
\* its entry unit and every then-branch and continuation unit a c_if made
\* are still bound, none was overwritten by a later c_if.
C19_CIfNeverOverwrites ==
    \A f \in Functions(heap) :
        LET k == Cardinality({g \in MadeIn(heap, f) : IsFunction(heap, g)})
        IN  /\ Len(heap[f].children) = 1 + 2 * k
            /\ Children(heap, f) = MadeIn(heap, f)
            /\ heap[f].entry_point \in Children(heap, f)

\* C20: the current unit of every Function is a unit the Function binds as
\* a direct child, and no unit is the current unit of two Functions.
C20_CursorIsOwnChild ==
    /\ \A f \in Functions(heap) :
          /\ IsMCFunction(heap, heap[f].current_mcfunction)
          /\ heap[f].current_mcfunction \in Children(heap, f)
    /\ \A f, g \in Functions(heap) :
          f # g => heap[f].current_mcfunction # heap[g].current_mcfunction

====
